---- MODULE Spec2Model ----
(***************************************************************************)
(* Model of app/models.py (MyBlog, CH_09 example 05): the session-scope    *)
(* helper db_session_manager, Role.initialize_role_table, and the User     *)
(* confirmation / password-reset token methods.                            *)
(*                                                                         *)
(* The collaborators the file calls are modelled by what they do:          *)
(*   - db.session (SQLAlchemy): objects added to the session are pending   *)
(*     until a flush writes them into the open transaction; a query        *)
(*     autoflushes; commit flushes and makes the transaction durable;      *)
(*     rollback and close both discard the transaction and the pending     *)
(*     objects.                                                            *)
(*   - URLSafeTimedSerializer (itsdangerous): a token carries its payload  *)
(*     and its signing time in whole seconds; loads(max_age) raises        *)
(*     BadSignature on a wrong signature and SignatureExpired when         *)
(*     now - signed > max_age, max_age being a number of SECONDS.          *)
(*   - jwt (PyJWT): decode raises when the "exp" claim (seconds) is not    *)
(*     in the future.                                                      *)
(* Time is a clock of whole seconds.                                       *)
(***************************************************************************)
EXTENDS Integers, Sequences, FiniteSets, TLC

VARIABLES
    db,            \* committed store: [users: uid -> confirmed, roles: set of rows]
    session,       \* db.session: [pending: Seq of staged writes, tx: store as seen in the open transaction]
    obj,           \* in-memory User objects: uid -> value of the attribute confirmed
    nextUid,       \* source of fresh identifiers (get_uuid)
    sessionLog,    \* rollback / close / commit calls made on db.session in the current scope or call
    pc,            \* position of the running scope / method
    session_close, \* the parameter of the running db_session_manager scope
    outcome,       \* how the scope body ended: "none", "normal", "return" or the exception raised
    propagated,    \* the exception the caller sees leaving the scope / method ("none" when it returns)
    snapshot,      \* committed store when the running scope / method was entered
    role_i,        \* loop position of initialize_role_table (1..3)
    runs,          \* completed calls of initialize_role_table
    seeded,        \* a call of initialize_role_table returned and no role row was edited since
    now,           \* the clock, whole seconds
    config,        \* current_app.config: SECRET_KEY and, when set, CONFIRMATION_LINK_TIMEOUT (minutes)
    lastCall,      \* the last token-method call: its arguments, time and result
    issued         \* reset tokens issued so far

vars == <<db, session, obj, nextUid, sessionLog, pc, session_close, outcome,
          propagated, snapshot, role_i, runs, seeded, now, config, lastCall, issued>>

None == "None"

\* ---------------------------------------------------------------- users
Uids == {"u1", "u2"}

\* Python exceptions that derive from Exception, and those that derive from
\* BaseException only.
ExceptionClasses == {"ValueError", "OperationalError", "MultipleResultsFound", "TypeError",
                     "AttributeError", "SignatureExpired", "BadSignature"}
BaseOnlyClasses == {"KeyboardInterrupt", "SystemExit"}

\* ---------------------------------------------------------------- db.session
EmptyStore == [users |-> [u \in Uids |-> FALSE], roles |-> {}]

\* The column defaults of Role.created and Role.updated and the onupdate of
\* Role.updated: three values of datetime.now() taken when the class is defined.
CreatedDefault == "now@166"
UpdatedDefault == "now@170"
UpdatedOnUpdate == "now@171"

\* The flush emits an UPDATE for a row only when an attribute got a new value.
RowChanges(r, w) ==
    r.description # w.description \/ r.raw_permissions # w.raw_permissions

\* One staged write applied to the transaction's view of the store. A staged
\* role without identifier is an INSERT and takes the column default get_uuid().
ApplyWrite(tx, w, uid) ==
    CASE w.kind = "user" ->
           [tx EXCEPT !.users[w.uid] = w.confirmed]
      [] w.kind = "role_insert" ->
           [tx EXCEPT !.roles = @ \cup {[role_uid |-> uid, name |-> w.name,
                                          description |-> w.description,
                                          raw_permissions |-> w.raw_permissions,
                                          active |-> TRUE,
                                          created |-> CreatedDefault,
                                          updated |-> UpdatedDefault]}]
      [] w.kind = "role_update" ->
           [tx EXCEPT !.roles = {IF r.role_uid = w.role_uid /\ RowChanges(r, w)
                                   THEN [r EXCEPT !.description = w.description,
                                                  !.raw_permissions = w.raw_permissions,
                                                  !.updated = UpdatedOnUpdate]
                                   ELSE r : r \in @}]

RECURSIVE FlushFrom(_, _, _)
FlushFrom(pending, tx, uid) ==
    IF pending = <<>> THEN [tx |-> tx, uid |-> uid]
    ELSE LET w == Head(pending)
         IN  FlushFrom(Tail(pending), ApplyWrite(tx, w, uid),
                       IF w.kind = "role_insert" THEN uid + 1 ELSE uid)

\* session.flush(): the pending writes go into the open transaction.
SessionFlush(s, uid) ==
    LET f == FlushFrom(s.pending, s.tx, uid)
    IN  [session |-> [pending |-> <<>>, tx |-> f.tx], uid |-> f.uid]

\* session.add(x)
SessionAdd(s, w) == [s EXCEPT !.pending = Append(@, w)]

\* session.rollback(): the transaction and the pending objects are discarded.
SessionRollback(s, committed) == [pending |-> <<>>, tx |-> committed]

\* session.close(): expunges every object and releases the transaction.
SessionClose(s, committed) == [pending |-> <<>>, tx |-> committed]

\* ---------------------------------------------------------------- db_session_manager
\* "except Exception:" -- which exceptions the handler catches.
ManagerCatches(e) == e \in ExceptionClasses

\* "finally: if session_close:" -- whether the helper closes the session.
ManagerCloses_Always(sc) == TRUE

ManagerCloses(sc) == sc

\* The except clause: rollback, then re-raise.
ExceptClause_NoRollback(s, committed, log) == [session |-> s, log |-> log]

ExceptClause(s, committed, log) ==
    [session |-> SessionRollback(s, committed), log |-> Append(log, "rollback")]

\* The finally clause.
FinallyClause(s, committed, log, sc) ==
    IF ManagerCloses(sc)
      THEN [session |-> SessionClose(s, committed), log |-> Append(log, "close")]
      ELSE [session |-> s, log |-> log]

\* Leaving the scope with body outcome o (the whole of lines 32-37).
ManagerExit(s, committed, log, o, sc) ==
    LET e == IF ManagerCatches(o) THEN ExceptClause(s, committed, log)
                                  ELSE [session |-> s, log |-> log]
    IN  FinallyClause(e.session, committed, e.log, sc)

\* What leaves the scope: the exception of the body, re-raised or never caught.
Propagates(o) == IF o \in ExceptionClasses \cup BaseOnlyClasses THEN o ELSE "none"

Count(log, op) == Cardinality({i \in 1..Len(log) : log[i] = op})
FirstIndex(log, op) == IF Count(log, op) = 0 THEN 0
                       ELSE CHOOSE i \in 1..Len(log) : log[i] = op /\ \A j \in 1..(i-1) : log[j] # op

\* ================================================================ scope
\* A caller's "with db_session_manager(session_close) as db_session:" block
\* whose body stages confirmed flags, commits, and then ends normally, by an
\* early return, or by raising.
MaxLog == 3
BodyOutcomes == {"normal", "return", "ValueError", "OperationalError",
                 "KeyboardInterrupt", "SystemExit"}

IdleCall == [op |-> "none"]

\* current_app.config with no CONFIRMATION_LINK_TIMEOUT, and with one.
BareConfig == [SECRET_KEY |-> "SECRET_KEY"]
ConfigWith(T) == [SECRET_KEY |-> "SECRET_KEY", CONFIRMATION_LINK_TIMEOUT |-> T]
TimeoutConfigured == "CONFIRMATION_LINK_TIMEOUT" \in DOMAIN config

InitScope ==
    /\ db = EmptyStore
    /\ session = [pending |-> <<>>, tx |-> EmptyStore]
    /\ obj = [u \in Uids |-> FALSE]
    /\ nextUid = 1
    /\ sessionLog = <<>>
    /\ pc = "idle"
    /\ session_close = TRUE
    /\ outcome = "none"
    /\ propagated = "none"
    /\ snapshot = EmptyStore
    /\ role_i = 1
    /\ runs = 0
    /\ seeded = FALSE
    /\ now = 0
    /\ config = BareConfig
    /\ lastCall = IdleCall
    /\ issued = {}

\* __enter__: the generator runs to "yield db.session".
ScopeEnter(sc) ==
    /\ pc = "idle"
    /\ pc' = "body"
    /\ session_close' = sc
    /\ sessionLog' = <<>>
    /\ outcome' = "none"
    /\ propagated' = "none"
    /\ snapshot' = db
    /\ UNCHANGED <<db, session, obj, nextUid, role_i, runs, seeded, now, config, lastCall, issued>>

\* body: user.confirmed = True; db_session.add(user)
BodyStage(u) ==
    /\ pc = "body"
    /\ Len(session.pending) < MaxLog
    /\ obj' = [obj EXCEPT ![u] = TRUE]
    /\ session' = SessionAdd(session, [kind |-> "user", uid |-> u, confirmed |-> TRUE])
    /\ UNCHANGED <<db, nextUid, sessionLog, pc, session_close, outcome, propagated, snapshot,
                   role_i, runs, seeded, now, config, lastCall, issued>>

\* body: db_session.commit()
BodyCommit ==
    /\ pc = "body"
    /\ Len(sessionLog) < MaxLog
    /\ LET f == SessionFlush(session, nextUid)
       IN  /\ db' = f.session.tx
           /\ session' = f.session
           /\ nextUid' = f.uid
    /\ sessionLog' = Append(sessionLog, "commit")
    /\ UNCHANGED <<obj, pc, session_close, outcome, propagated, snapshot,
                   role_i, runs, seeded, now, config, lastCall, issued>>

\* The body ends; an exception is thrown into the generator at the yield.
BodyEnd(o) ==
    /\ pc = "body"
    /\ outcome' = o
    /\ pc' = IF ManagerCatches(o) THEN "except" ELSE "finally"
    /\ UNCHANGED <<db, session, obj, nextUid, sessionLog, session_close, propagated, snapshot,
                   role_i, runs, seeded, now, config, lastCall, issued>>

\* except Exception: db.session.rollback(); raise
ScopeExcept ==
    /\ pc = "except"
    /\ LET e == ExceptClause(session, db, sessionLog)
       IN  session' = e.session /\ sessionLog' = e.log
    /\ pc' = "finally"
    /\ UNCHANGED <<db, obj, nextUid, session_close, outcome, propagated, snapshot,
                   role_i, runs, seeded, now, config, lastCall, issued>>

\* finally: if session_close: db.session.close() -- then the scope is left.
ScopeFinally ==
    /\ pc = "finally"
    /\ LET f == FinallyClause(session, db, sessionLog, session_close)
       IN  session' = f.session /\ sessionLog' = f.log
    /\ propagated' = Propagates(outcome)
    /\ pc' = "exited"
    /\ UNCHANGED <<db, obj, nextUid, session_close, outcome, snapshot,
                   role_i, runs, seeded, now, config, lastCall, issued>>

\* The caller goes on to its next scope.
ScopeLeave ==
    /\ pc = "exited"
    /\ pc' = "idle"
    /\ UNCHANGED <<db, session, obj, nextUid, sessionLog, session_close, outcome, propagated,
                   snapshot, role_i, runs, seeded, now, config, lastCall, issued>>

NextScope ==
    \/ \E sc \in BOOLEAN : ScopeEnter(sc)
    \/ \E u \in Uids : BodyStage(u)
    \/ BodyCommit
    \/ \E o \in BodyOutcomes : BodyEnd(o)
    \/ ScopeExcept
    \/ ScopeFinally
    \/ ScopeLeave

SpecScope == InitScope /\ [][NextScope]_vars

C2_CloseOnEveryExit ==
    /\ pc = "exited" =>
         Count(sessionLog, "close") = (IF session_close THEN 1 ELSE 0)
    /\ pc \in {"body", "except", "finally"} => Count(sessionLog, "close") = 0

C2_Witness ==
    /\ pc = "exited"
    /\ outcome = "return"
    /\ session_close
    /\ Count(sessionLog, "close") = 1
    /\ session.pending = <<>>
    /\ obj["u1"]

\* ================================================================ roles
\* Role.Permissions(Flag): auto() gives successive powers of two.
REGISTERED == 1
EDITOR == 2
ADMINISTRATOR == 4

\* The | of two flag values.
RECURSIVE BitOr(_, _)
BitOr(a, b) ==
    IF a = 0 THEN b
    ELSE IF b = 0 THEN a
    ELSE (IF a % 2 = 1 \/ b % 2 = 1 THEN 1 ELSE 0) + 2 * BitOr(a \div 2, b \div 2)

\* The list "roles" of initialize_role_table.
roles ==
    << [name |-> "user",
        description |-> "registered user permission",
        raw_permissions |-> REGISTERED],
       [name |-> "editor",
        description |-> "user has ability to edit all content and comments",
        raw_permissions |-> BitOr(REGISTERED, EDITOR)],
       [name |-> "admin",
        description |-> "administrator user with access to all of the application",
        raw_permissions |-> BitOr(BitOr(REGISTERED, EDITOR), ADMINISTRATOR)] >>

CanonicalNames == {roles[i].name : i \in 1..Len(roles)}

\* db_session.query(Role).filter(Role.name == name): the rows of that name.
QueryByName(tx, name) == {r \in tx.roles : r.name = name}

\* What one loop iteration hands to db_session.add: a new Role when
\* one_or_none() found nothing, else the found row with description and
\* raw_permissions overwritten.
UpsertWrite_AlwaysInsert(found, r) ==
    [kind |-> "role_insert", name |-> r.name, description |-> r.description,
     raw_permissions |-> r.raw_permissions]

UpsertWrite_KeepPermissions(found, r) ==
    IF found = {}
      THEN [kind |-> "role_insert", name |-> r.name, description |-> r.description,
            raw_permissions |-> r.raw_permissions]
      ELSE LET role == CHOOSE x \in found : TRUE
           IN  [kind |-> "role_update", role_uid |-> role.role_uid,
                description |-> r.description, raw_permissions |-> role.raw_permissions]

UpsertWrite(found, r) ==
    IF found = {}
      THEN [kind |-> "role_insert", name |-> r.name, description |-> r.description,
            raw_permissions |-> r.raw_permissions]
      ELSE LET role == CHOOSE x \in found : TRUE
           IN  [kind |-> "role_update", role_uid |-> role.role_uid,
                description |-> r.description, raw_permissions |-> r.raw_permissions]

\* One iteration of "for r in roles": the query autoflushes what the previous
\* iteration added, then the role is built or updated and added. Nothing is
\* committed here.
UpsertStep_CommitEach(s, committed, uid, r) ==
    LET f == SessionFlush(s, uid)
        g == SessionFlush(SessionAdd(f.session, UpsertWrite(QueryByName(f.session.tx, r.name), r)),
                          f.uid)
    IN  [session |-> g.session, db |-> g.session.tx, uid |-> g.uid]

UpsertStep(s, committed, uid, r) ==
    LET f == SessionFlush(s, uid)
        found == QueryByName(f.session.tx, r.name)
    IN  [session |-> SessionAdd(f.session, UpsertWrite(found, r)),
         db |-> committed, uid |-> f.uid]

MaxRuns == 2

\* Role rows a database may hold before the call: one canonical, one stale and
\* deactivated, one of another name.
ExistingRows ==
    { [role_uid |-> 101, name |-> "user", description |-> "registered user permission",
       raw_permissions |-> REGISTERED, active |-> TRUE,
       created |-> "earlier", updated |-> "earlier"],
      [role_uid |-> 102, name |-> "editor", description |-> "stale",
       raw_permissions |-> BitOr(REGISTERED, ADMINISTRATOR), active |-> FALSE,
       created |-> "earlier", updated |-> "earlier"],
      [role_uid |-> 103, name |-> "guest", description |-> "read only",
       raw_permissions |-> 0, active |-> TRUE,
       created |-> "earlier", updated |-> "earlier"] }

TamperDescriptions == {"corrupted"}
TamperPermissions == {0, BitOr(EDITOR, ADMINISTRATOR)}

InitRole ==
    /\ \E T \in SUBSET ExistingRows :
         /\ db = [users |-> [u \in Uids |-> FALSE], roles |-> T]
         /\ session = [pending |-> <<>>, tx |-> db]
         /\ snapshot = db
    /\ obj = [u \in Uids |-> FALSE]
    /\ nextUid = 1
    /\ sessionLog = <<>>
    /\ pc = "idle"
    /\ session_close = TRUE
    /\ outcome = "none"
    /\ propagated = "none"
    /\ role_i = 1
    /\ runs = 0
    /\ seeded = FALSE
    /\ now = 0
    /\ config = BareConfig
    /\ lastCall = IdleCall
    /\ issued = {}

\* initialize_role_table() is called: "with db_session_manager() as db_session:"
RoleEnter ==
    /\ pc = "idle"
    /\ runs < MaxRuns
    /\ pc' = "loop"
    /\ role_i' = 1
    /\ runs' = runs + 1
    /\ session_close' = TRUE
    /\ sessionLog' = <<>>
    /\ outcome' = "none"
    /\ propagated' = "none"
    /\ snapshot' = db
    /\ UNCHANGED <<db, session, obj, nextUid, seeded, now, config, lastCall, issued>>

\* One iteration of the loop (lines 206-221).
RoleUpsert ==
    /\ pc = "loop"
    /\ LET r == roles[role_i]
           ambiguous == Cardinality(QueryByName(SessionFlush(session, nextUid).session.tx,
                                                r.name)) > 1
           step == UpsertStep(session, db, nextUid, r)
       IN  IF ambiguous
             THEN /\ outcome' = "MultipleResultsFound"
                  /\ pc' = "except"
                  /\ UNCHANGED <<db, session, nextUid, role_i>>
             ELSE /\ session' = step.session
                  /\ db' = step.db
                  /\ nextUid' = step.uid
                  /\ role_i' = IF role_i < Len(roles) THEN role_i + 1 ELSE role_i
                  /\ pc' = IF role_i < Len(roles) THEN "loop" ELSE "commit"
                  /\ UNCHANGED outcome
    /\ UNCHANGED <<obj, sessionLog, session_close, propagated, snapshot, runs, seeded,
                   now, config, lastCall, issued>>

\* db_session.commit() (line 222), then the with block ends normally.
RoleCommit ==
    /\ pc = "commit"
    /\ LET f == SessionFlush(session, nextUid)
       IN  /\ db' = f.session.tx
           /\ session' = f.session
           /\ nextUid' = f.uid
    /\ sessionLog' = Append(sessionLog, "commit")
    /\ outcome' = "normal"
    /\ pc' = "finally"
    /\ UNCHANGED <<obj, session_close, propagated, snapshot, role_i, runs, seeded,
                   now, config, lastCall, issued>>

\* The query of an iteration, or the commit, raises (the database is gone, the
\* process is interrupted): nothing of the call becomes durable.
RoleFail(e) ==
    /\ pc \in {"loop", "commit"}
    /\ outcome' = e
    /\ pc' = IF ManagerCatches(e) THEN "except" ELSE "finally"
    /\ UNCHANGED <<db, session, obj, nextUid, sessionLog, session_close, propagated, snapshot,
                   role_i, runs, seeded, now, config, lastCall, issued>>

\* The call is over: it returned, or its exception reached the caller.
RoleReturn ==
    /\ pc = "exited"
    /\ pc' = "idle"
    /\ seeded' = IF propagated = "none" THEN TRUE ELSE seeded
    /\ UNCHANGED <<db, session, obj, nextUid, sessionLog, session_close, outcome, propagated,
                   snapshot, role_i, runs, now, config, lastCall, issued>>

\* Between two calls, somebody edits the description, the permissions or both
\* of a canonical row of the seeded table.
TamperRole(r, description, raw_permissions) ==
    /\ pc = "idle"
    /\ seeded
    /\ r \in db.roles
    /\ <<description, raw_permissions>> # <<r.description, r.raw_permissions>>
    /\ r.name \in CanonicalNames
    /\ db' = [db EXCEPT !.roles = (@ \ {r}) \cup
                 {[r EXCEPT !.description = description, !.raw_permissions = raw_permissions]}]
    /\ session' = [pending |-> <<>>, tx |-> db']
    /\ seeded' = FALSE
    /\ UNCHANGED <<obj, nextUid, sessionLog, pc, session_close, outcome, propagated, snapshot,
                   role_i, runs, now, config, lastCall, issued>>

NextRole ==
    \/ RoleEnter
    \/ RoleUpsert
    \/ RoleCommit
    \/ \E e \in {"OperationalError", "KeyboardInterrupt"} : RoleFail(e)
    \/ ScopeExcept
    \/ ScopeFinally
    \/ RoleReturn
    \/ \E r \in db.roles :
         \E d \in TamperDescriptions \cup {r.description} :
           \E p \in TamperPermissions \cup {r.raw_permissions} : TamperRole(r, d, p)

SpecRole == InitRole /\ [][NextRole]_vars

CanonicalRows(T) == {r \in T : r.name \in CanonicalNames}
Definition(r) == [name |-> r.name, description |-> r.description,
                  raw_permissions |-> r.raw_permissions]
PermissionsOf(T, name) == {r.raw_permissions : r \in QueryByName([roles |-> T], name)}
StrictBitSubset(a, b) == BitOr(a, b) = b /\ a # b

\* C3: once a call of initialize_role_table has returned (and after any number
\* of further calls), as long as nobody edited a row since, the committed table
\* holds exactly one row per canonical name, "user", "editor", "admin", with
\* the canonical descriptions and the permissions 1, 3 and 7, each a strict
\* bit-superset of the previous; a table that started empty holds exactly these
\* three rows. A row edited between two calls is restored by the next call.
C3_IdempotentSeeding ==
    seeded =>
      /\ {Definition(r) : r \in CanonicalRows(db.roles)} = {roles[i] : i \in 1..Len(roles)}
      /\ Cardinality(CanonicalRows(db.roles)) = 3
      /\ CanonicalNames = {"user", "editor", "admin"}
      /\ PermissionsOf(db.roles, "user") = {1}
      /\ PermissionsOf(db.roles, "editor") = {3}
      /\ PermissionsOf(db.roles, "admin") = {7}
      /\ StrictBitSubset(1, 3) /\ StrictBitSubset(3, 7)
      /\ db.roles = CanonicalRows(db.roles) => Cardinality(db.roles) = 3

\* A table that started empty, seeded, then edited, then restored by a later call.
C3_Witness ==
    /\ pc = "idle"
    /\ seeded
    /\ runs >= 2
    /\ Cardinality(db.roles) = 3
    /\ \A r \in db.roles : r.role_uid < 100
    /\ \E r \in snapshot.roles : r.description = "corrupted" /\ r.raw_permissions = 0

\* C4 (as amended): when a call returns, every row that existed before it is
\* still there with its role_uid, name, active flag and created stamp; of such a
\* row with a canonical name only description and raw_permissions change, and
\* with them -- when either got a new value -- the updated stamp, set by the
\* column's onupdate; rows of other names are untouched; a row is new only for
\* a canonical name that had no row, and its role_uid is one no earlier row has.
C4_UpsertFrame ==
    (pc = "exited" /\ propagated = "none") =>
      /\ \A r \in snapshot.roles :
           \E r2 \in db.roles :
             /\ r2.role_uid = r.role_uid
             /\ r2.name = r.name
             /\ r2.active = r.active
             /\ r2.created = r.created
             /\ r2.updated = (IF Definition(r2) # Definition(r) THEN UpdatedOnUpdate
                                                                ELSE r.updated)
             /\ r.name \notin CanonicalNames => r2 = r
      /\ \A r2 \in db.roles :
           (\A r \in snapshot.roles : r.role_uid # r2.role_uid) =>
             /\ r2.name \in CanonicalNames
             /\ QueryByName(snapshot, r2.name) = {}
      /\ Cardinality({r.role_uid : r \in db.roles}) = Cardinality(db.roles)
      /\ Cardinality(db.roles) =
           Cardinality(snapshot.roles)
           + Cardinality({n \in CanonicalNames : QueryByName(snapshot, n) = {}})

C4_Witness ==
    /\ pc = "exited"
    /\ propagated = "none"
    /\ snapshot.roles = ExistingRows
    /\ Cardinality(db.roles) = 4
    /\ \E r \in db.roles : /\ r.role_uid = 102 /\ ~r.active /\ r.raw_permissions = 3
                            /\ r.created = "earlier" /\ r.updated = UpdatedOnUpdate
    /\ \E r \in db.roles : r.role_uid = 101 /\ r.updated = "earlier"
    /\ \E r \in db.roles : r.name = "admin" /\ r.role_uid < 100

\* C4 (as stated): of a row that already existed, the call changes only
\* description and raw_permissions; a row is inserted only for a canonical name
\* that has no row, with a fresh role_uid; rows of other names are neither
\* changed nor deleted.
C4_OnlyDescriptionAndPermissions ==
    (pc = "exited" /\ propagated = "none") =>
      /\ \A r \in snapshot.roles :
           \E r2 \in db.roles :
             /\ r2 = [r EXCEPT !.description = r2.description,
                               !.raw_permissions = r2.raw_permissions]
             /\ r.name \notin CanonicalNames => r2 = r
      /\ \A r2 \in db.roles :
           (\A r \in snapshot.roles : r.role_uid # r2.role_uid) =>
             /\ r2.name \in CanonicalNames
             /\ QueryByName(snapshot, r2.name) = {}

\* C5: the committed table changes only at the commit that follows the third
\* iteration; a call that ends with an exception leaves the committed table as
\* it was on entry, the session holding nothing of the call, the exception
\* reaching the caller -- rollback having been called when the exception
\* derives from Exception.
C5_OneUnitOfWork ==
    /\ pc \in {"loop", "commit"} => db = snapshot
    /\ pc \in {"except", "finally", "exited"} =>
         (db # snapshot => Count(sessionLog, "commit") = 1 /\ outcome = "normal")
    /\ (pc = "exited" /\ propagated # "none") =>
         /\ db = snapshot
         /\ session = [pending |-> <<>>, tx |-> db]
         /\ propagated = outcome
         /\ outcome \in ExceptionClasses => Count(sessionLog, "rollback") = 1
    /\ (pc = "exited" /\ propagated = "none") =>
         Cardinality(CanonicalRows(db.roles)) = 3

\* The commit fails after all three roles were processed.
C5_Witness ==
    /\ pc = "exited"
    /\ propagated = "OperationalError"
    /\ role_i = 3
    /\ nextUid >= 3
    /\ snapshot.roles = {}
    /\ db.roles = {}
    /\ sessionLog = <<"rollback", "close">>

\* ================================================================ confirmation tokens
Keys == {"SECRET_KEY", "another key"}

\* Values of CONFIRMATION_LINK_TIMEOUT (minutes) an application may configure.
Timeouts == {0, 1}

\* Instants (seconds) the clock is observed at: around T minutes and around
\* T * 60 * 1000 seconds for the configured T.
ConfirmInstants == {0, 60, 61, 60000, 60001}

\* Payloads a signed token may carry: {"confirm": uid}, a mapping without the
\* key "confirm", and a value that is no mapping.
Payloads == [type : {"mapping"}, confirm : Uids \cup {None}] \cup {[type |-> "string", confirm |-> None]}

\* confirmation_token(): serializer.dumps({"confirm": self.user_uid}), signed
\* with SECRET_KEY and stamped with the time of signing.
ConfirmationToken(u, t) ==
    [key |-> config.SECRET_KEY, ts |-> t, payload |-> [type |-> "mapping", confirm |-> u]]

\* timeout = confirmation_link_timeout * 60 * 1000
ConfirmTimeout(T) == T * 60 * 1000

\* serializer.loads(token, max_age): the signature is checked first, then the
\* age in seconds against max_age.
Loads(tk, max_age, t) ==
    IF tk.key # config.SECRET_KEY THEN [exc |-> "BadSignature", data |-> None]
    ELSE IF t - tk.ts > max_age THEN [exc |-> "SignatureExpired", data |-> None]
    ELSE [exc |-> "none", data |-> tk.payload]

\* except (SignatureExpired, BadSignature): return False
InnerCatches(e) == e \in {"SignatureExpired", "BadSignature"}

\* data.get("confirm") != self.user_uid
ConfirmMismatch_Never(data, u) == FALSE

ConfirmMismatch(data, u) == data.confirm # u

\* The body of the with block of confirm_token (lines 95-105): how it ends
\* (return, or the exception that leaves it), the value returned, and whether
\* self was marked confirmed and added to the session.
ConfirmBody(u, tk, cfg, t) ==
    IF "CONFIRMATION_LINK_TIMEOUT" \notin DOMAIN cfg
      THEN [outcome |-> "TypeError", result |-> "raise", staged |-> FALSE, max_age |-> None]
    ELSE LET m == ConfirmTimeout(cfg.CONFIRMATION_LINK_TIMEOUT)
             l == Loads(tk, m, t)
         IN  IF l.exc # "none"
               THEN IF InnerCatches(l.exc)
                      THEN [outcome |-> "return", result |-> "False", staged |-> FALSE, max_age |-> m]
                      ELSE [outcome |-> l.exc, result |-> "raise", staged |-> FALSE, max_age |-> m]
             ELSE IF l.data.type # "mapping"
               THEN [outcome |-> "AttributeError", result |-> "raise", staged |-> FALSE, max_age |-> m]
             ELSE IF ConfirmMismatch(l.data, u)
               THEN [outcome |-> "return", result |-> "False", staged |-> FALSE, max_age |-> m]
             ELSE [outcome |-> "return", result |-> "True", staged |-> TRUE, max_age |-> m]

InitConfirm ==
    /\ db = EmptyStore
    /\ session = [pending |-> <<>>, tx |-> EmptyStore]
    /\ obj = [u \in Uids |-> FALSE]
    /\ nextUid = 1
    /\ sessionLog = <<>>
    /\ pc = "idle"
    /\ session_close = TRUE
    /\ outcome = "none"
    /\ propagated = "none"
    /\ snapshot = EmptyStore
    /\ role_i = 1
    /\ runs = 0
    /\ seeded = FALSE
    /\ now = 0
    /\ config \in {BareConfig} \cup {ConfigWith(T) : T \in Timeouts}
    /\ lastCall = IdleCall
    /\ issued = {}

\* Time passes.
Tick(t) ==
    /\ t > now
    /\ now' = t
    /\ UNCHANGED <<db, session, obj, nextUid, sessionLog, pc, session_close, outcome,
                   propagated, snapshot, role_i, runs, seeded, config, lastCall, issued>>

\* u.confirm_token(tk), the whole call: the with block under
\* db_session_manager() and the exit of the scope.
ConfirmToken(u, tk) ==
    /\ pc = "idle"
    /\ tk.ts <= now
    /\ LET b == ConfirmBody(u, tk, config, now)
           s1 == IF b.staged
                   THEN SessionAdd(session, [kind |-> "user", uid |-> u, confirmed |-> TRUE])
                   ELSE session
           x == ManagerExit(s1, db, <<>>, b.outcome, TRUE)
       IN  /\ obj' = IF b.staged THEN [obj EXCEPT ![u] = TRUE] ELSE obj
           /\ session' = x.session
           /\ sessionLog' = x.log
           /\ outcome' = b.outcome
           /\ propagated' = Propagates(b.outcome)
           /\ lastCall' = [op |-> "confirm_token", self |-> u, token |-> tk, at |-> now,
                           was |-> obj[u], result |-> b.result, max_age |-> b.max_age,
                           staged |-> b.staged]
    /\ session_close' = TRUE
    /\ snapshot' = db
    /\ UNCHANGED <<db, nextUid, pc, role_i, runs, seeded, now, config, issued>>

\* The caller commits right after confirm_token returned: db.session.commit()
CallerCommit ==
    /\ pc = "idle"
    /\ lastCall.op = "confirm_token"
    /\ lastCall.result # "raise"
    /\ LET f == SessionFlush(session, nextUid)
       IN  /\ db' = f.session.tx
           /\ session' = f.session
           /\ nextUid' = f.uid
    /\ sessionLog' = Append(sessionLog, "commit")
    /\ lastCall' = [lastCall EXCEPT !.op = "commit"]
    /\ UNCHANGED <<obj, pc, session_close, outcome, propagated, snapshot, role_i, runs,
                   seeded, now, config, issued>>

NextConfirm ==
    \/ \E t \in ConfirmInstants : Tick(t)
    \/ \E u \in Uids : \E tk \in [key : Keys, ts : ConfirmInstants, payload : Payloads] :
         ConfirmToken(u, tk)
    \/ CallerCommit

SpecConfirm == InitConfirm /\ [][NextConfirm]_vars

\* C6: with a timeout configured, confirm_token on u with the token that
\* u.confirmation_token() has just produced returns True and leaves u.confirmed
\* true; with the token v.confirmation_token() has just produced, v another
\* user, it returns False and leaves u.confirmed as it was.
C6_RoundTrip ==
    (lastCall.op = "confirm_token" /\ TimeoutConfigured) =>
      \A v \in Uids :
        lastCall.token = ConfirmationToken(v, lastCall.at) =>
          IF v = lastCall.self
            THEN lastCall.result = "True" /\ obj[lastCall.self]
            ELSE lastCall.result = "False" /\ obj[lastCall.self] = lastCall.was

C6_Witness ==
    /\ lastCall.op = "confirm_token"
    /\ config = ConfigWith(1)
    /\ lastCall.at = 61
    /\ lastCall.self = "u1"
    /\ lastCall.token = ConfirmationToken("u2", 61)
    /\ lastCall.result = "False"
    /\ obj["u2"]
    /\ ~obj["u1"]

\* C7: with CONFIRMATION_LINK_TIMEOUT = T minutes, a validly signed token of
\* this user older than T minutes is refused and confirmed is not modified, the
\* max_age handed to the verifier being T minutes in seconds, the verifier's
\* unit.
C7_ExpiredTokenRefused ==
    (lastCall.op = "confirm_token" /\ TimeoutConfigured) =>
      ((/\ lastCall.token.key = config.SECRET_KEY
        /\ lastCall.token.payload = [type |-> "mapping", confirm |-> lastCall.self]
        /\ lastCall.at - lastCall.token.ts > config.CONFIRMATION_LINK_TIMEOUT * 60)
       => (/\ lastCall.result = "False"
           /\ obj[lastCall.self] = lastCall.was
           /\ lastCall.max_age = config.CONFIRMATION_LINK_TIMEOUT * 60))

\* C8: confirm_token never raises, whatever the token and the configuration,
\* and a call that returns False leaves confirmed as it was.
C8_NeverRaises ==
    lastCall.op = "confirm_token" =>
      /\ lastCall.result \in {"True", "False"}
      /\ propagated = "none"
      /\ lastCall.result = "False" => obj[lastCall.self] = lastCall.was

\* C10: when confirm_token returned True the change is still staged in the
\* session, so the caller's commit right after persists confirmed = true; the
\* method itself never changes the committed store.
C10_StagedForTheCaller ==
    /\ (lastCall.op = "confirm_token" /\ lastCall.result = "True") =>
         \E i \in 1..Len(session.pending) :
           session.pending[i] = [kind |-> "user", uid |-> lastCall.self, confirmed |-> TRUE]
    /\ (lastCall.op = "commit" /\ lastCall.result = "True") => db.users[lastCall.self]
    /\ lastCall.op = "confirm_token" => db = snapshot

\* ================================================================ reset tokens
MaxTokens == 2
ResetTimeouts == {1, 2}
ResetInstants == {0, 30, 60, 61, 90, 120, 121}

\* timeout *= 60; "exp": time() + timeout
GetResetExp_Minutes(t, timeout) == t + timeout

GetResetExp(t, timeout) == t + timeout * 60

\* get_reset_token(timeout) called at time t: a JWT signed with SECRET_KEY.
GetResetToken(u, timeout, t) ==
    [key |-> config.SECRET_KEY,
     payload |-> [reset_password |-> u, exp |-> GetResetExp(t, timeout)]]

\* jwt.decode(token, SECRET_KEY, algorithms=["HS256"]): the signature, then the
\* "exp" claim against the clock.
JwtDecode(tk, t) ==
    IF tk.key # config.SECRET_KEY THEN [exc |-> "InvalidSignatureError", payload |-> None]
    ELSE IF tk.payload.exp <= t THEN [exc |-> "ExpiredSignatureError", payload |-> None]
    ELSE [exc |-> "none", payload |-> tk.payload]

\* verify_reset_token(token) at time t: the user_uid, or "raise" when decode raises.
VerifyResetTokenAt(tk, t) ==
    LET d == JwtDecode(tk, t)
    IN  IF d.exc # "none" THEN "raise" ELSE d.payload.reset_password

InitReset ==
    /\ db = EmptyStore
    /\ session = [pending |-> <<>>, tx |-> EmptyStore]
    /\ obj = [u \in Uids |-> FALSE]
    /\ nextUid = 1
    /\ sessionLog = <<>>
    /\ pc = "idle"
    /\ session_close = TRUE
    /\ outcome = "none"
    /\ propagated = "none"
    /\ snapshot = EmptyStore
    /\ role_i = 1
    /\ runs = 0
    /\ seeded = FALSE
    /\ now = 0
    /\ config = BareConfig
    /\ lastCall = IdleCall
    /\ issued = {}

\* u.get_reset_token(timeout); the token is remembered with the time and the
\* timeout it was issued with.
IssueResetToken(u, timeout) ==
    /\ Cardinality(issued) < MaxTokens
    /\ issued' = issued \cup {[token |-> GetResetToken(u, timeout, now), uid |-> u,
                               s |-> now, t |-> timeout]}
    /\ lastCall' = [op |-> "get_reset_token", token |-> GetResetToken(u, timeout, now),
                    at |-> now, result |-> "token"]
    /\ UNCHANGED <<db, session, obj, nextUid, sessionLog, pc, session_close, outcome,
                   propagated, snapshot, role_i, runs, seeded, now, config>>

\* User.verify_reset_token(tk)
VerifyResetToken(tk) ==
    /\ lastCall' = [op |-> "verify_reset_token", token |-> tk, at |-> now,
                    result |-> VerifyResetTokenAt(tk, now)]
    /\ UNCHANGED <<db, session, obj, nextUid, sessionLog, pc, session_close, outcome,
                   propagated, snapshot, role_i, runs, seeded, now, config, issued>>

NextReset ==
    \/ \E t \in ResetInstants : Tick(t)
    \/ \E u \in Uids : \E timeout \in ResetTimeouts : IssueResetToken(u, timeout)
    \/ \E e \in issued : VerifyResetToken(e.token)
    \/ \E e \in issued : VerifyResetToken([e.token EXCEPT !.key = "another key"])

SpecReset == InitReset /\ [][NextReset]_vars

\* C9: a reset token issued at time s with timeout t minutes verifies to its
\* user's user_uid at every time before s + t minutes and raises at every time
\* after, whatever other tokens were issued for the same user before or after
\* it and whether they have expired.
C9_ResetWindow ==
    /\ \A e \in issued :
         /\ now < e.s + e.t * 60 => VerifyResetTokenAt(e.token, now) = e.uid
         /\ now > e.s + e.t * 60 => VerifyResetTokenAt(e.token, now) = "raise"
    /\ lastCall.op = "verify_reset_token" =>
         \A e \in issued :
           e.token = lastCall.token =>
             /\ lastCall.at < e.s + e.t * 60 => lastCall.result = e.uid
             /\ lastCall.at > e.s + e.t * 60 => lastCall.result = "raise"

\* Two tokens of u1 issued together with different timeouts: the shorter one
\* has expired, the longer one still verifies.
C9_Witness ==
    /\ now = 61
    /\ issued = {[token |-> GetResetToken("u1", 1, 0), uid |-> "u1", s |-> 0, t |-> 1],
                 [token |-> GetResetToken("u1", 2, 0), uid |-> "u1", s |-> 0, t |-> 2]}
    /\ VerifyResetTokenAt(GetResetToken("u1", 1, 0), now) = "raise"
    /\ lastCall = [op |-> "verify_reset_token", token |-> GetResetToken("u1", 2, 0),
                   at |-> 61, result |-> "u1"]

====
